---- MODULE Spec2Model ----
(***************************************************************************)
(* E-commerce admin backend: the generic CRUD helpers of main.py over a    *)
(* document store, the HTTP handlers that call them, the request models    *)
(* the handlers validate against, and the sale-config singleton.           *)
(***************************************************************************)
EXTENDS Integers, Sequences, FiniteSets, TLC

VARIABLES
    db,          \* collection name -> sequence of documents, in insertion order
    oidCounter,  \* number of ObjectIds the driver has generated so far
    clock,       \* the wall clock datetime.utcnow() reads
    last,        \* the last request handled: its inputs, its response, the store before it
    fresh,       \* created records not yet updated or deleted, with the body that created them
    lastPut      \* the body of the most recent accepted PUT /sale, if any

vars == <<db, oidCounter, clock, last, fresh, lastPut>>

--------------------------------------------------------------------------
(* Bounds *)

\* ObjectIds the driver may generate in one run
MaxIds == 2
\* last value of the wall clock
MaxTime == 1

--------------------------------------------------------------------------
(* Values: JSON / BSON values carry their type *)

Null == [t |-> "null", v |-> 0]
Bool(b) == [t |-> "bool", v |-> b]
Num(n) == [t |-> "num", v |-> n]
Str(s) == [t |-> "str", v |-> s]
Dict(f) == [t |-> "dict", v |-> f]
Date(n) == [t |-> "date", v |-> n]
\* a bson.ObjectId
Oid(o) == [t |-> "oid", v |-> o]
\* a string held character by character (identifier strings)
Chars(s) == [t |-> "chars", v |-> s]

EmptyObj == [k \in {} |-> Null]

\* d's pairs over base's: {**base, **d}
Merge(base, d) ==
    [k \in DOMAIN base \cup DOMAIN d |-> IF k \in DOMAIN d THEN d[k] ELSE base[k]]

\* Python truthiness of a value (data.get(k) or default)
Truthy(x) ==
    CASE x.t = "null" -> FALSE
      [] x.t = "bool" -> x.v
      [] x.t = "num" -> x.v # 0
      [] x.t = "str" -> x.v # ""
      [] x.t = "dict" -> DOMAIN x.v # {}
      [] OTHER -> TRUE

--------------------------------------------------------------------------
(* Identifiers: bson.ObjectId(id_str) and str(ObjectId) *)

OidHexLen == 24

LowerHex == <<"0","1","2","3","4","5","6","7","8","9","a","b","c","d","e","f">>
UpperHex == <<"0","1","2","3","4","5","6","7","8","9","A","B","C","D","E","F">>

HexChars == {LowerHex[i] : i \in 1..16} \cup {UpperHex[i] : i \in 1..16}

HexVal == [c \in HexChars |-> (CHOOSE i \in 1..16 : LowerHex[i] = c \/ UpperHex[i] = c) - 1]

\* ObjectId(id_str): a str is accepted iff it is 24 hex digits (either case)
ObjectIdValid(s) == Len(s) = OidHexLen /\ \A i \in 1..Len(s) : s[i] \in HexChars

\* the number the first n hex digits of s spell
RECURSIVE HexNumber(_, _)
HexNumber(s, n) == IF n = 0 THEN 0 ELSE HexNumber(s, n - 1) * 16 + HexVal[s[n]]

\* an ObjectId is held as the number its 12 bytes spell
ObjectIdOf(s) == HexNumber(s, OidHexLen)

\* the last n hex digits of o, lower case
RECURSIVE HexDigits(_, _)
HexDigits(o, n) ==
    IF n = 0 THEN << >> ELSE Append(HexDigits(o \div 16, n - 1), LowerHex[(o % 16) + 1])

\* str(ObjectId): 24 lower-case hex digits
OidStr(o) == HexDigits(o, OidHexLen)

\* to_object_id with the parse error swallowed: an id that matches nothing
to_object_id_lenient(s) ==
    IF ObjectIdValid(s)
    THEN [ok |-> TRUE, oid |-> ObjectIdOf(s)]
    ELSE [ok |-> TRUE, oid |-> 0]

\* to_object_id: the ObjectId, or HTTP 400 "Invalid id"
to_object_id(s) ==
    IF ObjectIdValid(s)
    THEN [ok |-> TRUE, oid |-> ObjectIdOf(s)]
    ELSE [ok |-> FALSE, oid |-> 0]

\* the n-th ObjectId the driver generates (n >= 1); no two are equal.  The
\* low digit starts at "a" so that identifiers have an upper-case spelling.
NewObjectId(n) == 9 + n

--------------------------------------------------------------------------
(* Request models: pydantic field tables *)

\* a field: its name, type, whether None is allowed, whether it must be given,
\* its default, and its ge / le range constraints
Fld(name, type, optional, required, default) ==
    [name |-> name, type |-> type, optional |-> optional, required |-> required,
     default |-> default, hasGe |-> FALSE, ge |-> 0, hasLe |-> FALSE, le |-> 0]

Ge(f, lo) == [f EXCEPT !.hasGe = TRUE, !.ge = lo]
Le(f, hi) == [f EXCEPT !.hasLe = TRUE, !.le = hi]

\* main.py: the models the handlers take
UserIn ==
    { Fld("name", "str", FALSE, TRUE, Null),
      Fld("email", "str", FALSE, TRUE, Null),
      Fld("address", "str", FALSE, TRUE, Null),
      Fld("age", "int", TRUE, FALSE, Null),
      Fld("is_active", "bool", FALSE, FALSE, Bool(TRUE)) }

ProductIn ==
    { Fld("title", "str", FALSE, TRUE, Null),
      Fld("description", "str", TRUE, FALSE, Null),
      Fld("price", "float", FALSE, TRUE, Null),
      Fld("category", "str", FALSE, TRUE, Null),
      Fld("in_stock", "bool", FALSE, FALSE, Bool(TRUE)),
      Fld("sku", "str", TRUE, FALSE, Null),
      Fld("image_url", "str", TRUE, FALSE, Null) }

CategoryIn ==
    { Fld("name", "str", FALSE, TRUE, Null),
      Fld("description", "str", TRUE, FALSE, Null),
      Fld("is_active", "bool", FALSE, FALSE, Bool(TRUE)) }

BlogIn ==
    { Fld("title", "str", FALSE, TRUE, Null),
      Fld("content", "str", FALSE, TRUE, Null),
      Fld("author", "str", FALSE, TRUE, Null),
      Fld("is_published", "bool", FALSE, FALSE, Bool(FALSE)) }

SaleConfigIn ==
    { Fld("global_sale_active", "bool", FALSE, FALSE, Bool(FALSE)),
      Fld("global_discount_percent", "float", FALSE, FALSE, Num(0)),
      Fld("product_sales", "dict", FALSE, FALSE, Dict(EmptyObj)) }

\* schemas.py: the collection schemas, with their range constraints
MaxAge == 120
MaxDiscountPercent == 100

User ==
    { Fld("name", "str", FALSE, TRUE, Null),
      Fld("email", "str", FALSE, TRUE, Null),
      Fld("address", "str", FALSE, TRUE, Null),
      Le(Ge(Fld("age", "int", TRUE, FALSE, Null), 0), MaxAge),
      Fld("is_active", "bool", FALSE, FALSE, Bool(TRUE)) }

Product ==
    { Fld("title", "str", FALSE, TRUE, Null),
      Fld("description", "str", TRUE, FALSE, Null),
      Ge(Fld("price", "float", FALSE, TRUE, Null), 0),
      Fld("category", "str", FALSE, TRUE, Null),
      Fld("in_stock", "bool", FALSE, FALSE, Bool(TRUE)),
      Fld("sku", "str", TRUE, FALSE, Null),
      Fld("image_url", "str", TRUE, FALSE, Null) }

SaleConfig ==
    { Fld("global_sale_active", "bool", FALSE, FALSE, Bool(FALSE)),
      Le(Ge(Fld("global_discount_percent", "float", FALSE, FALSE, Num(0)), 0),
         MaxDiscountPercent),
      Fld("product_sales", "dict", FALSE, FALSE, Dict(EmptyObj)) }

\* the type check of one value (inputs here need no coercion: numbers for
\* int / float, booleans for bool, text that is not a number for str)
TypeOk(f, x) ==
    \/ f.optional /\ x.t = "null"
    \/ f.type = "str" /\ x.t = "str"
    \/ f.type \in {"int", "float"} /\ x.t = "num"
    \/ f.type = "bool" /\ x.t = "bool"
    \/ f.type = "dict" /\ x.t = "dict" /\ \A k \in DOMAIN x.v : x.v[k].t = "num"

RangeOk(f, x) ==
    x.t = "num" => /\ f.hasGe => x.v >= f.ge
                   /\ f.hasLe => x.v <= f.le

\* model validation of a request body: 422 when it fails
Validates(model, body) ==
    \A f \in model :
        IF f.name \in DOMAIN body
        THEN TypeOk(f, body[f.name]) /\ RangeOk(f, body[f.name])
        ELSE ~f.required

FieldNames(model) == {f.name : f \in model}

FieldOf(model, name) == CHOOSE f \in model : f.name = name

\* model_dump(exclude_unset=True): only the fields the body gave
model_dump_exclude_unset(model, body) ==
    [n \in FieldNames(model) \cap DOMAIN body |-> body[n]]

\* model_dump(): every field of the model, defaults filled in, extra keys of
\* the body dropped
model_dump(model, body) ==
    [n \in FieldNames(model) |->
        IF n \in DOMAIN body THEN body[n] ELSE FieldOf(model, n).default]

--------------------------------------------------------------------------
(* The document store: pymongo calls on one collection's documents *)

\* find_one({"_id": oid}): the position of the first match, 0 when none
find_one(docs, oid) ==
    IF \E i \in 1..Len(docs) : docs[i]["_id"] = Oid(oid)
    THEN CHOOSE i \in 1..Len(docs) :
            /\ docs[i]["_id"] = Oid(oid)
            /\ \A j \in 1..(i - 1) : docs[j]["_id"] # Oid(oid)
    ELSE 0

\* insert_one(data): the driver adds a generated _id (no request model has one)
insert_one(docs, data, oid) == Append(docs, Merge(data, [_id |-> Oid(oid)]))

\* update_one as a replacement: the match becomes set, under its old _id
update_one_replace(docs, oid, set) ==
    LET i == find_one(docs, oid) IN
    IF i = 0 THEN [matched |-> 0, error |-> FALSE, docs |-> docs]
    ELSE IF "_id" \in DOMAIN set /\ set["_id"] # docs[i]["_id"]
         THEN [matched |-> 0, error |-> TRUE, docs |-> docs]
         ELSE [matched |-> 1, error |-> FALSE,
               docs |-> [docs EXCEPT ![i] = Merge(set, [_id |-> docs[i]["_id"]])]]

\* update_one with upsert=True: no match inserts a document
update_one_upsert(docs, oid, set) ==
    LET i == find_one(docs, oid) IN
    IF i = 0
    THEN [matched |-> 0, error |-> FALSE,
          docs |-> Append(docs, Merge(set, [_id |-> Oid(oid)]))]
    ELSE IF "_id" \in DOMAIN set /\ set["_id"] # docs[i]["_id"]
         THEN [matched |-> 0, error |-> TRUE, docs |-> docs]
         ELSE [matched |-> 1, error |-> FALSE,
               docs |-> [docs EXCEPT ![i] = Merge(docs[i], set)]]

\* update_one on a store that lets $set write _id
update_one_set_id(docs, oid, set) ==
    LET i == find_one(docs, oid) IN
    IF i = 0 THEN [matched |-> 0, error |-> FALSE, docs |-> docs]
    ELSE [matched |-> 1, error |-> FALSE,
          docs |-> [docs EXCEPT ![i] = Merge(docs[i], set)]]

\* update_one({"_id": oid}, {"$set": set}): the first match gets set's fields;
\* the store refuses a $set that would change _id (a write error)
update_one(docs, oid, set) ==
    LET i == find_one(docs, oid) IN
    IF i = 0 THEN [matched |-> 0, error |-> FALSE, docs |-> docs]
    ELSE IF "_id" \in DOMAIN set /\ set["_id"] # docs[i]["_id"]
         THEN [matched |-> 0, error |-> TRUE, docs |-> docs]
         ELSE [matched |-> 1, error |-> FALSE,
               docs |-> [docs EXCEPT ![i] = Merge(docs[i], set)]]

\* delete_one({"_id": oid}): the first match is removed
delete_one(docs, oid) ==
    LET i == find_one(docs, oid) IN
    IF i = 0 THEN [deleted |-> 0, docs |-> docs]
    ELSE [deleted |-> 1,
          docs |-> SubSeq(docs, 1, i - 1) \o SubSeq(docs, i + 1, Len(docs))]

\* an insert in place of the upsert
upsert_one_insert(docs, set, oid) == Append(docs, Merge(set, [_id |-> Oid(oid)]))

\* update_one({}, {"$set": set}, upsert=True): the first document gets set's
\* fields; with none, one is inserted from set under a new _id
upsert_one(docs, set, oid) ==
    IF Len(docs) = 0
    THEN <<Merge(set, [_id |-> Oid(oid)])>>
    ELSE [docs EXCEPT ![1] = Merge(docs[1], set)]

--------------------------------------------------------------------------
(* The generic CRUD helpers.  Each gives the response status and body, the *)
(* collection's documents afterwards, and whether the store was called.    *)

Detail(msg) == [detail |-> Str(msg)]

Success == [success |-> Bool(TRUE)]

Outcome(status, resp, docs, called) ==
    [status |-> status, resp |-> resp, docs |-> docs, called |-> called]

get_item(docs, item_id) ==
    LET o == to_object_id(item_id) IN
    IF ~o.ok THEN Outcome(400, Detail("Invalid id"), docs, FALSE)
    ELSE LET i == find_one(docs, o.oid) IN
         IF i = 0 THEN Outcome(404, Detail("Not found"), docs, TRUE)
         ELSE Outcome(200, docs[i], docs, TRUE)

\* the document create_item inserts: data, with the two timestamps from two
\* reads of the clock (t1, then t2) unless data holds truthy ones
create_item(data, t1, t2) ==
    LET created == IF "created_at" \in DOMAIN data /\ Truthy(data["created_at"])
                   THEN data["created_at"] ELSE Date(t1)
        updated == IF "updated_at" \in DOMAIN data /\ Truthy(data["updated_at"])
                   THEN data["updated_at"] ELSE Date(t2)
    IN Merge(data, [created_at |-> created, updated_at |-> updated])

update_item(docs, item_id, data, now) ==
    LET set == Merge(data, [updated_at |-> Date(now)])
        o == to_object_id(item_id)
    IN IF ~o.ok THEN Outcome(400, Detail("Invalid id"), docs, FALSE)
       ELSE LET res == update_one(docs, o.oid, set) IN
            IF res.error
            THEN Outcome(500, Detail("Internal Server Error"), res.docs, TRUE)
            ELSE IF res.matched = 0
            THEN Outcome(404, Detail("Not found"), res.docs, TRUE)
            ELSE Outcome(200, Success, res.docs, TRUE)

delete_item(docs, item_id) ==
    LET o == to_object_id(item_id) IN
    IF ~o.ok THEN Outcome(400, Detail("Invalid id"), docs, FALSE)
    ELSE LET res == delete_one(docs, o.oid) IN
         IF res.deleted = 0 THEN Outcome(404, Detail("Not found"), res.docs, TRUE)
         ELSE Outcome(200, Success, res.docs, TRUE)

\* p["_id"] = str(p["_id"]) on a found record
StrId(out) ==
    IF out.status = 200
    THEN [out EXCEPT !.resp = [@ EXCEPT !["_id"] = Chars(OidStr(@.v))]]
    ELSE out

\* get_sale_config with an incomplete zero configuration
get_sale_config_partial_default(docs) ==
    IF Len(docs) = 0
    THEN [global_sale_active |-> Bool(FALSE), global_discount_percent |-> Num(0)]
    ELSE [docs[1] EXCEPT !["_id"] = Chars(OidStr(@.v))]

\* get_sale_config without the conversion of _id
get_sale_config_raw_id(docs) ==
    IF Len(docs) = 0
    THEN [global_sale_active |-> Bool(FALSE),
          global_discount_percent |-> Num(0),
          product_sales |-> Dict(EmptyObj)]
    ELSE docs[1]

\* GET /sale: the zero configuration when the collection is empty, else its
\* first document with _id as a string and product_sales re-keyed by str(k)
\* (the keys of a Dict[str, float] are strings: str(k) is k)
get_sale_config(docs) ==
    IF Len(docs) = 0
    THEN [global_sale_active |-> Bool(FALSE),
          global_discount_percent |-> Num(0),
          product_sales |-> Dict(EmptyObj)]
    ELSE LET doc == [docs[1] EXCEPT !["_id"] = Chars(OidStr(@.v))] IN
         IF "product_sales" \in DOMAIN doc
         THEN [doc EXCEPT !["product_sales"] =
                    Dict([k \in DOMAIN @.v |-> @.v[k]])]
         ELSE doc

--------------------------------------------------------------------------
(* Requests *)

Collections == {"user", "product", "category", "blog", "saleconfig"}

\* the collections with PUT and DELETE routes, and those with GET by id
ItemCollections == {"product", "category", "blog"}
GetCollections == {"product", "blog"}

PenBody == [title |-> Str("Pen"), price |-> Num(2), category |-> Str("stationery")]

ProductBodies ==
    { PenBody,
      Merge(PenBody, [in_stock |-> Bool(FALSE), created_at |-> Str("2020-01-01")]),
      Merge(PenBody, [price |-> Num(-1)]),
      Merge(PenBody, [price |-> Str("cheap")]),
      [title |-> Str("Pen"), category |-> Str("stationery")] }

PostBody == [title |-> Str("Hello"), content |-> Str("text"), author |-> Str("Ann")]

BlogBodies ==
    { PostBody,
      Merge(PostBody, [is_published |-> Bool(TRUE)]),
      [title |-> Str("Hello"), author |-> Str("Ann")] }

CategoryBodies ==
    { [name |-> Str("stationery")],
      [description |-> Str("no name")] }

AnnBody == [name |-> Str("Ann"), email |-> Str("ann@example.org"), address |-> Str("1 Main St")]

UserBodies ==
    { AnnBody,
      Merge(AnnBody, [age |-> Num(30)]),
      Merge(AnnBody, [age |-> Num(MaxAge + 1)]),
      Merge(AnnBody, [age |-> Num(-1)]),
      Merge(AnnBody, [age |-> Str("old")]) }

SaleBodies ==
    { EmptyObj,
      [global_sale_active |-> Bool(TRUE), global_discount_percent |-> Num(10),
       product_sales |-> Dict([p1 |-> Num(5)])],
      [product_sales |-> Dict([p2 |-> Num(20)])],
      [global_discount_percent |-> Num(MaxDiscountPercent + 1)],
      [global_discount_percent |-> Num(-1)],
      [global_sale_active |-> Str("maybe")] }

\* the body every POST of the item specification sends to a collection
ItemBody(coll) ==
    CASE coll = "product" -> PenBody
      [] coll = "blog" -> PostBody
      [] coll = "category" -> [name |-> Str("stationery")]

ModelOf(coll) ==
    CASE coll = "product" -> ProductIn
      [] coll = "blog" -> BlogIn
      [] coll = "category" -> CategoryIn
      [] coll = "user" -> UserIn

\* PUT bodies of the item routes: any dict
UpdatePayloads ==
    { EmptyObj,
      [title |-> Str("Pencil"), note |-> Str("sale")],
      [updated_at |-> Str("2020-01-01")],
      [_id |-> Str("x"), title |-> Str("Pencil")] }

\* identifier strings: those of the generated ids, an upper-case spelling of
\* the first, one well formed that is never generated, and malformed ones
NeverId == [i \in 1..OidHexLen |-> "0"]

IdStrings ==
    {OidStr(NewObjectId(n)) : n \in 1..MaxIds}
    \cup { [NeverId EXCEPT ![OidHexLen] = UpperHex[NewObjectId(1) + 1]],
           NeverId,
           SubSeq(NeverId, 1, OidHexLen - 1),
           [NeverId EXCEPT ![1] = "g"] }

\* the value a read of the clock may give right after a read that gave t
Now(t) == {u \in t..(t + 1) : u <= MaxTime}

\* a run keeps its documents in one item collection (the helpers touch
\* db[coll] alone): the requests on coll are taken while the others are empty
InUse(coll) == \A c \in ItemCollections \ {coll} : db[c] = << >>

\* the _id the server gives the upserted sale-config document
SaleOid == NewObjectId(0)

--------------------------------------------------------------------------
(* Handlers.  A request is handled in one step, which leaves its response  *)
(* in last; the response is then delivered before the next request.        *)

NoRequest ==
    [op |-> "none", coll |-> "", id |-> << >>, body |-> EmptyObj, status |-> 0,
     resp |-> EmptyObj, called |-> FALSE, pre |-> [c \in Collections |-> << >>]]

Init ==
    /\ db = [c \in Collections |-> << >>]
    /\ oidCounter = 0
    /\ clock = 0
    /\ last = NoRequest
    /\ fresh = {}
    /\ lastPut = [done |-> FALSE, body |-> EmptyObj]

Idle == last.op = "none"

Handled(op, coll, id, body, status, resp, called) ==
    last' = [op |-> op, coll |-> coll, id |-> id, body |-> body, status |-> status,
             resp |-> resp, called |-> called, pre |-> db]

Deliver ==
    /\ ~Idle
    /\ last' = NoRequest
    /\ UNCHANGED <<db, oidCounter, clock, fresh, lastPut>>

\* time passes between requests
Tick ==
    /\ Idle
    /\ clock < MaxTime
    /\ clock' = clock + 1
    /\ UNCHANGED <<db, oidCounter, last, fresh, lastPut>>

\* a request body the model rejects: 422 from the framework, handler not run
Rejected(op, coll, body) ==
    /\ Handled(op, coll, << >>, body, 422, Detail("validation error"), FALSE)
    /\ UNCHANGED <<db, oidCounter, clock, fresh, lastPut>>

\* POST of a resource: create_item(coll, model.model_dump())
Create(coll, body, cap) ==
    /\ Idle
    /\ IF ~Validates(ModelOf(coll), body) THEN Rejected("create", coll, body)
       ELSE /\ oidCounter < cap
            /\ \E t2 \in Now(clock) :
                 LET t1 == clock
                     oid == NewObjectId(oidCounter + 1)
                     doc == create_item(model_dump(ModelOf(coll), body), t1, t2)
                 IN /\ db' = [db EXCEPT ![coll] = insert_one(@, doc, oid)]
                    /\ oidCounter' = oidCounter + 1
                    /\ clock' = t2
                    /\ fresh' = fresh \cup {[coll |-> coll, oid |-> oid, body |-> body]}
                    /\ Handled("create", coll, << >>, body, 200,
                               [id |-> Chars(OidStr(oid))], TRUE)
            /\ UNCHANGED lastPut

\* GET /products/{id}, GET /blogs/{id}
Get(coll, id) ==
    LET out == StrId(get_item(db[coll], id)) IN
    /\ Idle
    /\ Handled("get", coll, id, EmptyObj, out.status, out.resp, out.called)
    /\ UNCHANGED <<db, oidCounter, clock, fresh, lastPut>>

\* the records of fresh other than the one a request on id touched
Untouched(coll, id) ==
    {e \in fresh : ~(e.coll = coll /\ e.oid = to_object_id(id).oid)}

\* PUT /products/{id}, /categories/{id}, /blogs/{id}
Update(coll, id, payload) ==
    LET out == update_item(db[coll], id, payload, clock) IN
    /\ Idle
    /\ db' = [db EXCEPT ![coll] = out.docs]
    /\ fresh' = IF out.status = 200 THEN Untouched(coll, id) ELSE fresh
    /\ Handled("update", coll, id, payload, out.status, out.resp, out.called)
    /\ UNCHANGED <<oidCounter, clock, lastPut>>

\* DELETE /products/{id}, /categories/{id}, /blogs/{id}
Delete(coll, id) ==
    LET out == delete_item(db[coll], id) IN
    /\ Idle
    /\ db' = [db EXCEPT ![coll] = out.docs]
    /\ fresh' = IF out.status = 200 THEN Untouched(coll, id) ELSE fresh
    /\ Handled("delete", coll, id, EmptyObj, out.status, out.resp, out.called)
    /\ UNCHANGED <<oidCounter, clock, lastPut>>

\* GET /sale
GetSale ==
    /\ Idle
    /\ Handled("get_sale", "saleconfig", << >>, EmptyObj, 200,
               get_sale_config(db["saleconfig"]), TRUE)
    /\ UNCHANGED <<db, oidCounter, clock, fresh, lastPut>>

\* PUT /sale
update_sale_config(body) ==
    /\ Idle
    /\ IF ~Validates(SaleConfigIn, body) THEN Rejected("put_sale", "saleconfig", body)
       ELSE LET data == Merge(model_dump(SaleConfigIn, body), [updated_at |-> Date(clock)])
            IN /\ db' = [db EXCEPT !["saleconfig"] = upsert_one(@, data, SaleOid)]
               /\ lastPut' = [done |-> TRUE, body |-> body]
               /\ Handled("put_sale", "saleconfig", << >>, body, 200, Success, TRUE)
               /\ UNCHANGED <<oidCounter, clock, fresh>>

--------------------------------------------------------------------------
(* Specifications *)

\* the item routes with one body per collection, every identifier string
\* and every PUT payload; the clock advances inside create_item
Next ==
    \/ \E c \in ItemCollections : InUse(c) /\ Create(c, ItemBody(c), MaxIds)
    \/ \E c \in GetCollections, id \in IdStrings : InUse(c) /\ Get(c, id)
    \/ \E c \in ItemCollections, id \in IdStrings, d \in UpdatePayloads :
          InUse(c) /\ Update(c, id, d)
    \/ \E c \in ItemCollections, id \in IdStrings : InUse(c) /\ Delete(c, id)
    \/ Deliver

Spec == Init /\ [][Next]_vars

\* creation of products and blogs from every body, then reads, retitling
\* updates and deletes of them
NextCreate ==
    \/ \E b \in ProductBodies : InUse("product") /\ Create("product", b, MaxIds)
    \/ \E b \in BlogBodies : InUse("blog") /\ Create("blog", b, MaxIds)
    \/ \E c \in GetCollections, id \in IdStrings : InUse(c) /\ Get(c, id)
    \/ \E c \in GetCollections, id \in IdStrings :
          InUse(c) /\ Update(c, id, [title |-> Str("Pencil")])
    \/ \E c \in GetCollections, id \in IdStrings : InUse(c) /\ Delete(c, id)
    \/ Deliver

SpecCreate == Init /\ [][NextCreate]_vars

\* the validated routes: POST /users, POST /products, PUT /sale
NextValidate ==
    \/ \E b \in UserBodies : Create("user", b, MaxIds)
    \/ \E b \in ProductBodies : Create("product", b, MaxIds)
    \/ \E b \in SaleBodies : update_sale_config(b)
    \/ Deliver

SpecValidate == Init /\ [][NextValidate]_vars

\* the sale configuration: GET /sale and PUT /sale as time passes
NextSale ==
    \/ GetSale
    \/ \E b \in SaleBodies : update_sale_config(b)
    \/ Deliver
    \/ Tick

SpecSale == Init /\ [][NextSale]_vars

--------------------------------------------------------------------------
(* Properties of the item routes *)

\* the record of docs an identifier string names, 0 when none
Named(docs, id) ==
    IF ObjectIdValid(id) /\ \E i \in 1..Len(docs) : docs[i]["_id"] = Oid(ObjectIdOf(id))
    THEN CHOOSE i \in 1..Len(docs) : docs[i]["_id"] = Oid(ObjectIdOf(id))
    ELSE 0

Updated == last.op = "update" /\ last.status = 200

\* the records other than the updated one are as before, and so are the
\* fields of the updated one outside keys
FrameOutside(keys) ==
    LET pre == last.pre[last.coll]
        post == db[last.coll]
        r == Named(pre, last.id)
    IN /\ Len(post) = Len(pre)
       /\ \A j \in 1..Len(pre) : j # r => post[j] = pre[j]
       /\ \A k \in DOMAIN pre[r] \ keys :
             k \in DOMAIN post[r] /\ post[r][k] = pre[r][k]
       /\ \A c \in Collections \ {last.coll} : db[c] = last.pre[c]

\* C1 as claimed: a successful update_item(collection, id(r), d) leaves every
\* field of r that is not a key of d (and is not updated_at) at its prior
\* value, sets every field that is a key of d to d's value, and leaves every
\* other record of the collection unchanged.
C1_PartialMergeAsClaimed ==
    Updated =>
        /\ FrameOutside(DOMAIN last.body \cup {"updated_at"})
        /\ \A k \in DOMAIN last.body :
              LET post == db[last.coll][Named(last.pre[last.coll], last.id)]
              IN k \in DOMAIN post /\ post[k] = last.body[k]

\* C1 amended: as claimed for the keys of d other than updated_at, while
\* updated_at is set to the time update_item read, whether or not d has an
\* updated_at key.
C1_PartialMerge ==
    Updated =>
        LET post == db[last.coll][Named(last.pre[last.coll], last.id)] IN
        /\ FrameOutside(DOMAIN last.body \cup {"updated_at"})
        /\ \A k \in DOMAIN last.body \ {"updated_at"} :
              k \in DOMAIN post /\ post[k] = last.body[k]
        /\ post["updated_at"] = Date(clock)

\* an update of one of two records whose payload sets a field the record
\* has and one it lacks
C1_Witness ==
    /\ Updated
    /\ Len(db[last.coll]) >= 2
    /\ last.body = [title |-> Str("Pencil"), note |-> Str("sale")]
    /\ db[last.coll] # last.pre[last.coll]

ByIdOps == {"get", "update", "delete"}

\* C2: for every identifier string that cannot be parsed into an ObjectId,
\* get_item, update_item and delete_item fail with HTTP 400 before any
\* database call, and the store is as it was.
C2_InvalidIdRejected ==
    (last.op \in ByIdOps /\ ~ObjectIdValid(last.id)) =>
        /\ last.status = 400
        /\ ~last.called
        /\ db = last.pre

\* a 24-character identifier that is not hexadecimal, given to update_item
\* while the collection holds records
C2_Witness ==
    /\ last.op = "update"
    /\ last.status = 400
    /\ Len(last.id) = OidHexLen
    /\ Len(db[last.coll]) >= 1

\* C3: for every well-formed identifier that matches no record of the
\* collection, get_item, update_item and delete_item fail with HTTP 404 and
\* leave the collection as it was.
C3_UnknownIdNotFound ==
    ( /\ last.op \in ByIdOps
      /\ ObjectIdValid(last.id)
      /\ Named(last.pre[last.coll], last.id) = 0 ) =>
        /\ last.status = 404
        /\ db = last.pre

\* an update on the identifier of a record created and since deleted,
\* while another record exists
C3_Witness ==
    /\ last.op = "update"
    /\ last.status = 404
    /\ last.id = OidStr(NewObjectId(1))
    /\ oidCounter >= 2
    /\ Len(db[last.coll]) >= 1

Ids(docs) == [i \in 1..Len(docs) |-> docs[i]["_id"]]

Without(seq, k) == SubSeq(seq, 1, k - 1) \o SubSeq(seq, k + 1, Len(seq))

\* C9: no two records of a collection share an identifier, and the records
\* keep theirs: a create adds the identifier it returns after those there,
\* an update leaves every record's identifier in place, a delete only takes
\* one record away.
C9_IdsUniqueAndKept ==
    /\ \A c \in ItemCollections : \A i, j \in 1..Len(db[c]) :
          i # j => db[c][i]["_id"] # db[c][j]["_id"]
    /\ last.op = "update" => Ids(db[last.coll]) = Ids(last.pre[last.coll])
    /\ (last.op = "create" /\ last.status = 200) =>
          Ids(db[last.coll]) =
              Append(Ids(last.pre[last.coll]), Oid(ObjectIdOf(last.resp["id"].v)))
    /\ last.op = "delete" =>
          \/ Ids(db[last.coll]) = Ids(last.pre[last.coll])
          \/ \E k \in 1..Len(last.pre[last.coll]) :
                Ids(db[last.coll]) = Without(Ids(last.pre[last.coll]), k)

\* a payload with an _id key sent to an existing record, one of two
C9_Witness ==
    /\ last.op = "update"
    /\ "_id" \in DOMAIN last.body
    /\ Named(last.pre[last.coll], last.id) # 0
    /\ Len(db[last.coll]) >= 2

\* C10: the record create_item inserts (its data holding neither timestamp)
\* has created_at equal to updated_at.
C10_TimestampsEqual ==
    (last.op = "create" /\ last.status = 200) =>
        LET doc == db[last.coll][Len(db[last.coll])] IN
        doc["created_at"] = doc["updated_at"]

--------------------------------------------------------------------------
(* Properties of creation and validation *)

\* the value the body gives a field of the model, or the field's default
Given(f, body) == IF f.name \in DOMAIN body THEN body[f.name] ELSE f.default

Timestamps == {"created_at", "updated_at"}

\* C4: a GET of the identifier a POST of a product or blog returned, with no
\* update or delete of it in between, returns a record whose every field of
\* the resource equals the value of the POST's body, defaults included; the
\* identifier and the two timestamps are what is added.
C4_CreateGetRoundTrip ==
    \A e \in fresh :
        ( /\ last.op = "get"
          /\ last.coll = e.coll
          /\ ObjectIdValid(last.id)
          /\ ObjectIdOf(last.id) = e.oid ) =>
            /\ last.status = 200
            /\ DOMAIN last.resp =
                  FieldNames(ModelOf(e.coll)) \cup Timestamps \cup {"_id"}
            /\ \A f \in ModelOf(e.coll) : last.resp[f.name] = Given(f, e.body)
            /\ last.resp["_id"] = Chars(OidStr(e.oid))
            /\ \A k \in Timestamps : last.resp[k].t = "date"

\* a GET of a product created without in_stock, the second of two records
C4_Witness ==
    /\ last.op = "get"
    /\ last.status = 200
    /\ Len(db[last.coll]) >= 2
    /\ \E e \in fresh :
          /\ e.coll = last.coll
          /\ e.oid = ObjectIdOf(last.id)
          /\ e.oid = NewObjectId(2)
          /\ "in_stock" \notin DOMAIN e.body

\* schemas.py's schema of a collection
SchemaOf(coll) ==
    CASE coll = "product" -> Product
      [] coll = "user" -> User
      [] coll = "saleconfig" -> SaleConfig

\* C7: for every request body that violates a type or range constraint of
\* the resource's schema, POST /products, POST /users and PUT /sale fail with
\* HTTP 422 before any database call, and no document is inserted or modified.
C7_SchemaViolationRejected ==
    ( /\ last.op \in {"create", "put_sale"}
      /\ last.coll \in {"product", "user", "saleconfig"}
      /\ ~Validates(SchemaOf(last.coll), last.body) ) =>
        /\ last.status = 422
        /\ ~last.called
        /\ db = last.pre

--------------------------------------------------------------------------
(* Properties of the sale configuration *)

SaleDocs == db["saleconfig"]

\* C5: once PUT /sale has been accepted, the saleconfig collection holds
\* exactly one document, and its three configuration fields are those of the
\* most recent PUT (its body's values, the defaults for what it omits), with
\* nothing of earlier PUTs left.
C5_SingletonOverwritten ==
    lastPut.done =>
        /\ Len(SaleDocs) = 1
        /\ DOMAIN SaleDocs[1] = FieldNames(SaleConfigIn) \cup {"_id", "updated_at"}
        /\ \A f \in SaleConfigIn : SaleDocs[1][f.name] = Given(f, lastPut.body)

\* a second accepted PUT whose product_sales replace non-empty stored ones
C5_Witness ==
    /\ last.op = "put_sale"
    /\ last.status = 200
    /\ Len(last.pre["saleconfig"]) = 1
    /\ last.pre["saleconfig"][1]["product_sales"].v # EmptyObj
    /\ SaleDocs[1]["product_sales"] # last.pre["saleconfig"][1]["product_sales"]

ZeroConfig ==
    [global_sale_active |-> Bool(FALSE),
     global_discount_percent |-> Num(0),
     product_sales |-> Dict(EmptyObj)]

\* C6: while no PUT /sale has been accepted, every GET /sale returns the
\* zero-value configuration and the saleconfig collection stays empty.
C6_DefaultWithoutDocument ==
    ~lastPut.done =>
        /\ SaleDocs = << >>
        /\ last.op = "get_sale" => (last.status = 200 /\ last.resp = ZeroConfig)

\* a GET /sale before any accepted PUT, after time has passed
C6_Witness ==
    /\ last.op = "get_sale"
    /\ ~lastPut.done
    /\ clock > 0

\* C8 as claimed: the response of GET /sale holds no identifier of the
\* sale-config document, only the configuration fields.
C8_NoIdentifierAsClaimed ==
    last.op = "get_sale" => DOMAIN last.resp = FieldNames(SaleConfigIn)

\* C8 amended: the response of GET /sale holds only the configuration fields
\* while no document exists; once one exists it holds them, updated_at and
\* the document's identifier as a string under _id, never the ObjectId.
C8_IdentifierAsString ==
    last.op = "get_sale" =>
        IF last.pre["saleconfig"] = << >>
        THEN DOMAIN last.resp = FieldNames(SaleConfigIn)
        ELSE /\ DOMAIN last.resp = FieldNames(SaleConfigIn) \cup {"_id", "updated_at"}
             /\ last.resp["_id"] = Chars(OidStr(last.pre["saleconfig"][1]["_id"].v))

\* a GET /sale after an accepted PUT
C8_Witness ==
    /\ last.op = "get_sale"
    /\ lastPut.done
    /\ "_id" \in DOMAIN last.resp

====
